---- MODULE Spec2Model ----
(***************************************************************************)
(* icon-utils: the transaction serializer (src/src/lib.rs, mod serializer) *)
(* and the `sort` attribute macro (src/icon_derive/src/lib.rs).            *)
(*                                                                         *)
(* A Rust String is modelled as a sequence of one-character strings, so    *)
(* that ends_with, concatenation and prefixes are computed, not assumed.   *)
(* The NUL character is written "NUL".                                     *)
(***************************************************************************)
EXTENDS Integers, Sequences, FiniteSets, TLC

VARIABLES
    tx,       \* the transaction handed to serialize_to_string: [method, params]
    output,   \* Serializer.output, the single text buffer
    stack,    \* the call stack of the visitor: one frame per value being serialized
    pc,       \* position in serialize_to_string: "start", "run", "done"
    result,   \* what serialize_to_string returned: [tag, val]
    events,   \* history: the open/close of every visited node, in order
    ast,      \* the struct handed to #[sort]: [shape, fields]
    newFields,\* sort's sorted vector of fields
    ast2,     \* sort's rewritten copy of the struct
    spc       \* position in sort: "none", "parsed", "sorted", "cleared", "done", "panic"

vars == <<tx, output, stack, pc, result, events, ast, newFields, ast2, spc>>
serVars == <<tx, output, stack, pc, result, events>>
sortVars == <<ast, newFields, ast2, spc>>

(***************************************************************************)
(* Bounds of the model.                                                    *)
(***************************************************************************)
MaxLen == 2      \* items of a sequence, tuple variant or byte string
MaxPairs == 2    \* entries of a map, struct or struct variant
MaxFields == 3   \* fields of a struct handed to #[sort]

(***************************************************************************)
(* Strings.                                                                *)
(***************************************************************************)
EndsWith(s, c) == Len(s) > 0 /\ s[Len(s)] = c

IsPrefix(s, t) == Len(s) <= Len(t) /\ SubSeq(t, 1, Len(s)) = s

Digit(d) == CASE d = 0 -> "0" [] d = 1 -> "1" [] d = 2 -> "2" [] d = 3 -> "3"
              [] d = 4 -> "4" [] d = 5 -> "5" [] d = 6 -> "6" [] d = 7 -> "7"
              [] d = 8 -> "8" [] d = 9 -> "9"

RECURSIVE Digits(_)
\* u64::to_string: decimal digits, most significant first, no leading zeros
Digits(n) == IF n < 10 THEN <<Digit(n)>> ELSE Append(Digits(n \div 10), Digit(n % 10))

\* i64::to_string: a "-" only when negative
IntToString(n) == IF n < 0 THEN <<"-">> \o Digits(-n) ELSE Digits(n)

\* f64::to_string of the finite value h/2: the shortest text that reads back,
\* without exponent and without a trailing ".0"
HalvesToString(h) ==
    LET a == IF h < 0 THEN -h ELSE h
        sign == IF h < 0 THEN <<"-">> ELSE <<>>
    IN  sign \o Digits(a \div 2) \o (IF a % 2 = 1 THEN <<".", "5">> ELSE <<>>)

(***************************************************************************)
(* Values: what a Serialize implementation drives the serializer with.     *)
(* Every value is a record [kind, n, s, items].                            *)
(***************************************************************************)
V(k, n, s, items) == [kind |-> k, n |-> n, s |-> s, items |-> items]

Bool(b)              == V("Bool", IF b THEN 1 ELSE 0, <<>>, <<>>)
SignedInt(n)         == V("SignedInt", n, <<>>, <<>>)
UnsignedInt(n)       == V("UnsignedInt", n, <<>>, <<>>)
Float(h)             == V("Float", h, <<>>, <<>>)            \* the value h/2
FloatSpecial(s)      == V("Float", 0, s, <<>>)             \* NaN, inf, -inf
Text(s)              == V("Text", 0, s, <<>>)
Bytes(bs)            == V("Bytes", 0, <<>>, bs)
Absent               == V("Absent", 0, <<>>, <<>>)
NamedUnit(name)      == V("NamedUnit", 0, name, <<>>)
Wrapped(v)           == V("Wrapped", 0, <<>>, <<v>>)
TaggedSingle(t, v)   == V("TaggedSingle", 0, t, <<v>>)
Sequence(items)      == V("Sequence", 0, <<>>, items)
TaggedSequence(t, i) == V("TaggedSequence", 0, t, i)
Mapping(kvs)         == V("Mapping", 0, <<>>, kvs)         \* k1, v1, k2, v2, ...
Struct(kvs)          == V("Struct", 0, <<>>, kvs)          \* name1, v1, name2, v2, ...
TaggedMapping(t, kvs) == V("TaggedMapping", 0, t, kvs)
\* a caller's Serialize implementation that returns Err(Error::custom(msg))
Custom(msg)          == V("Custom", 0, msg, <<>>)

ErrMsg == <<"e", "r", "r">>

RECURSIVE HasCustom(_)
HasCustom(v) == v.kind = "Custom" \/ \E i \in 1..Len(v.items) : HasCustom(v.items[i])

(***************************************************************************)
(* The serializer's methods, as edits of the buffer.                       *)
(***************************************************************************)
serialize_bool(out, v) == out \o (IF v.n = 1 THEN <<"t", "r", "u", "e">>
                                             ELSE <<"f", "a", "l", "s", "e">>)
serialize_i64(out, v) == out \o IntToString(v.n)
serialize_u64(out, v) == out \o Digits(v.n)
serialize_f64(out, v) == out \o (IF v.s # <<>> THEN v.s ELSE HalvesToString(v.n))
\* mutant: `self.output = v` for `self.output += v`
serialize_str_assign(out, s) == s
serialize_str(out, s) == out \o s
serialize_unit(out) == out \o <<"NUL">>
serialize_unit_variant(out, v) == serialize_str(out, v.s)
newtype_variant_open(out, v) == serialize_str(out \o <<"{">>, v.s) \o <<".">>
newtype_variant_close(out) == out \o <<"}">>
serialize_seq(out) == out \o <<"[">>
serialize_tuple_variant(out, v) == serialize_str(out \o <<"{">>, v.s) \o <<".", "[">>
\* mutant: a map at the very start of the buffer is written bare, without its "{"
serialize_map_bare(out) == IF out = <<>> THEN out ELSE out \o <<"{">>
serialize_map(out) == out \o <<"{">>
serialize_struct(out) == serialize_map(out)
serialize_struct_variant(out, v) == serialize_str(out \o <<"{">>, v.s) \o <<".", "{">>
\* SerializeSeq / SerializeTuple / SerializeTupleStruct / SerializeTupleVariant
element_sep(out) == IF ~EndsWith(out, "[") THEN out \o <<".">> ELSE out
seq_end(out) == out \o <<"]">>
tuple_variant_end(out) == out \o <<"]", "}">>
\* SerializeMap
key_sep(out) == IF ~EndsWith(out, "{") THEN out \o <<".">> ELSE out
value_sep(out) == out \o <<".">>
map_end(out) == out \o <<"}">>
\* SerializeStruct::serialize_field up to the value
struct_field_head(out, key) ==
    serialize_str(IF ~EndsWith(out, "{") THEN out \o <<".">> ELSE out, key) \o <<".">>
\* SerializeStructVariant::serialize_field up to the value
variant_field_head(out, key) ==
    serialize_str(IF ~EndsWith(out, "{") THEN out \o <<".">> ELSE out, key) \o <<":">>
struct_end(out) == out \o <<"}">>
struct_variant_end(out) == out \o <<"}", "}">>

KeyRank(k) == IF k.s = <<"a">> THEN 1 ELSE IF k.s = <<"b">> THEN 2 ELSE 3
RECURSIVE PairsOfRank(_, _, _)
PairsOfRank(v, j, r) ==
    IF 2 * j > Len(v.items) THEN <<>>
    ELSE (IF KeyRank(v.items[2 * j - 1]) = r THEN <<v.items[2 * j - 1], v.items[2 * j]>>
                                             ELSE <<>>)
         \o PairsOfRank(v, j + 1, r)
\* mutant: the entries of a map or struct are put in key order before they are written
entry_sorted(v, i) ==
    IF v.kind \in {"Mapping", "Struct", "TaggedMapping"}
    THEN (PairsOfRank(v, 1, 1) \o PairsOfRank(v, 1, 2) \o PairsOfRank(v, 1, 3))[i]
    ELSE v.items[i]
\* the i-th call (key, value, key, ...) the value's Serialize implementation makes
entry(v, i) == v.items[i]

(***************************************************************************)
(* The visitor as the recursion the code runs: serialize(v, out) is the    *)
(* outcome of v.serialize(&mut serializer) with the buffer holding out.    *)
(***************************************************************************)
ROk(out) == [ok |-> TRUE, out |-> out]
RErr(msg) == [ok |-> FALSE, out |-> msg]

RECURSIVE serialize(_, _)
RECURSIVE elements(_, _, _)
RECURSIVE map_entries(_, _, _)
RECURSIVE fields(_, _, _, _)

elements(v, i, r) ==
    IF ~r.ok \/ i > Len(v.items) THEN r
    ELSE elements(v, i + 1, serialize(entry(v, i), element_sep(r.out)))

map_entries(v, i, r) ==
    IF ~r.ok \/ i > Len(v.items) THEN r
    ELSE map_entries(v, i + 1,
            serialize(entry(v, i), IF i % 2 = 1 THEN key_sep(r.out) ELSE value_sep(r.out)))

fields(v, i, r, tagged) ==
    IF ~r.ok \/ i > Len(v.items) THEN r
    ELSE fields(v, i + 2,
            serialize(entry(v, i + 1),
                      IF tagged THEN variant_field_head(r.out, entry(v, i).s)
                                ELSE struct_field_head(r.out, entry(v, i).s)),
            tagged)

\* the rest of a method after a `?`: runs only when the part before returned Ok
Closed(r, closed) == IF r.ok THEN ROk(closed) ELSE r

serialize(v, out) ==
    CASE v.kind = "Bool" -> ROk(serialize_bool(out, v))
      [] v.kind = "SignedInt" -> ROk(serialize_i64(out, v))
      [] v.kind = "UnsignedInt" -> ROk(serialize_u64(out, v))
      [] v.kind = "Float" -> ROk(serialize_f64(out, v))
      [] v.kind = "Text" -> ROk(serialize_str(out, v.s))
      [] v.kind = "Absent" -> ROk(serialize_unit(out))
      [] v.kind = "NamedUnit" -> ROk(serialize_unit_variant(out, v))
      [] v.kind = "Custom" -> RErr(v.s)
      [] v.kind = "Wrapped" -> serialize(v.items[1], out)
      [] v.kind = "TaggedSingle" ->
            LET r == serialize(v.items[1], newtype_variant_open(out, v))
            IN  Closed(r, newtype_variant_close(r.out))
      [] v.kind \in {"Sequence", "Bytes"} ->
            LET r == elements(v, 1, ROk(serialize_seq(out)))
            IN  Closed(r, seq_end(r.out))
      [] v.kind = "TaggedSequence" ->
            LET r == elements(v, 1, ROk(serialize_tuple_variant(out, v)))
            IN  Closed(r, tuple_variant_end(r.out))
      [] v.kind = "Mapping" ->
            LET r == map_entries(v, 1, ROk(serialize_map(out)))
            IN  Closed(r, map_end(r.out))
      [] v.kind = "Struct" ->
            LET r == fields(v, 1, ROk(serialize_struct(out)), FALSE)
            IN  Closed(r, struct_end(r.out))
      [] v.kind = "TaggedMapping" ->
            LET r == fields(v, 1, ROk(serialize_struct_variant(out, v)), TRUE)
            IN  Closed(r, struct_variant_end(r.out))

\* the text the serializer produces for v on a fresh buffer
Encode(v) == serialize(v, <<>>).out

(***************************************************************************)
(* The values and transactions the model draws its inputs from.            *)
(***************************************************************************)
SeqsUpTo(S, n) == UNION {[1..k -> S] : k \in 0..n}

\* k1, v1, ..., kn, vn for every choice of at most n pairs with distinct keys
PairLists(K, W, n) ==
    UNION {{[i \in 1..(2 * k) |-> IF i % 2 = 1 THEN ks[(i + 1) \div 2] ELSE ws[i \div 2]] :
                ks \in {f \in [1..k -> K] : \A a, b \in 1..k : f[a] = f[b] => a = b},
                ws \in [1..k -> W]} : k \in 0..n}

Tag == <<"F", "o", "o">>

Atoms ==
    {Bool(TRUE), Bool(FALSE), SignedInt(-5), SignedInt(12), UnsignedInt(0), UnsignedInt(255),
     Float(3), Float(-4), FloatSpecial(<<"N", "a", "N">>), FloatSpecial(<<"i", "n", "f">>),
     Text(<<>>), Text(<<"x">>), Text(<<"[">>), Text(<<"{">>), Text(<<".">>),
     Absent, NamedUnit(Tag), Custom(ErrMsg)}

SeqItems ==
    {Text(<<>>), Text(<<"a">>), Text(<<"[">>), SignedInt(1), SignedInt(2), Absent,
     Sequence(<<>>), Mapping(<<Text(<<"a">>), Text(<<"{">>)>>), Custom(ErrMsg)}

ByteItems == {UnsignedInt(0), UnsignedInt(7), UnsignedInt(255)}

MapKeys == {Text(<<"a">>), Text(<<"b">>), Text(<<"c">>)}

MapValues ==
    {SignedInt(1), SignedInt(2), Text(<<"x">>), Text(<<"{">>),
     Sequence(<<Text(<<"[">>), SignedInt(1)>>),
     Mapping(<<Text(<<"a">>), Text(<<"{">>), Text(<<"b">>), SignedInt(1)>>),
     Custom(ErrMsg)}

Containers ==
    {Sequence(i) : i \in SeqsUpTo(SeqItems, MaxLen)}
    \cup {TaggedSequence(Tag, i) : i \in SeqsUpTo(SeqItems, MaxLen)}
    \cup {Bytes(b) : b \in SeqsUpTo(ByteItems, MaxLen)}
    \cup {Mapping(p) : p \in PairLists(MapKeys, MapValues, MaxPairs)}
    \cup {Struct(p) : p \in PairLists(MapKeys, MapValues, MaxPairs)}
    \cup {TaggedMapping(Tag, p) : p \in PairLists(MapKeys, MapValues, MaxPairs)}

Payloads == Atoms \cup {Sequence(<<Text(<<"[">>), Text(<<"a">>)>>),
                        Struct(<<Text(<<"a">>), Text(<<"{">>), Text(<<"b">>), SignedInt(1)>>)}

Values ==
    Atoms \cup Containers
    \cup {Wrapped(v) : v \in Payloads}
    \cup {TaggedSingle(Tag, v) : v \in Payloads}
    \cup {Sequence(<<Wrapped(v), TaggedSingle(Tag, v)>>) : v \in Payloads}

Methods == {<<"i", "c", "x", "_", "c", "a", "l", "l">>, <<>>}

Transactions == [method : Methods, params : Values]

(***************************************************************************)
(* The visitor as a state machine: one frame per serialize call in         *)
(* progress.  idx counts the children already handed to the serializer,    *)
(* start is the length of the buffer when the call began, path is the      *)
(* position of the node in the transaction's params.                       *)
(***************************************************************************)
Frame(v, start, path) == [node |-> v, idx |-> 0, pc |-> "enter", start |-> start, path |-> path]

NoResult == [tag |-> "none", val |-> <<>>]
Ok(str) == [tag |-> "Ok", val |-> str]
Err(msg) == [tag |-> "Err", val |-> msg]

\* mutant: the "." between the method and "params" is missing
TransactionString_NoDot(method, out) ==
    method \o <<"p", "a", "r", "a", "m", "s", ".">> \o out
\* mutant: the enclosing characters of the params' text are stripped
TransactionString_Stripped(method, out) ==
    method \o <<".", "p", "a", "r", "a", "m", "s", ".">> \o SubSeq(out, 2, Len(out) - 1)
\* line 68: value.method() + ".params." + output
TransactionString(method, out) ==
    method \o <<".", "p", "a", "r", "a", "m", "s", ".">> \o out

\* mutant: the error is dropped and the buffer filled so far is returned
Propagate_Swallowed(method, out, msg) ==
    [tag |-> "Ok", val |-> method \o <<".", "p", "a", "r", "a", "m", "s", ".">> \o out]
\* line 67: `?` returns the serializer's error from serialize_to_string
Propagate(method, out, msg) == Err(msg)

Top == stack[Len(stack)]
Depth == Len(stack)
Entering(k) == pc = "run" /\ Depth > 0 /\ Top.pc = "enter" /\ Top.node.kind = k
Iterating(k) == pc = "run" /\ Depth > 0 /\ Top.pc = "iter" /\ Top.node.kind = k
Pop == SubSeq(stack, 1, Depth - 1)
Opened == [stack EXCEPT ![Depth].pc = "iter"]

\* the call returns Ok(()) to its caller with the buffer now holding out
Return(out) ==
    /\ output' = out
    /\ stack' = Pop
    /\ events' = Append(events, <<"close", Top.path>>)
    /\ UNCHANGED <<tx, pc, result, sortVars>>

\* the method wrote its opening text and handed back the compound serializer
Open(out) ==
    /\ output' = out
    /\ stack' = Opened
    /\ UNCHANGED <<tx, pc, result, events, sortVars>>

\* child number i is serialized next, the buffer holding out
Descend(out, i, step) ==
    LET path == Append(Top.path, i)
    IN  /\ output' = out
        /\ stack' = Append([stack EXCEPT ![Depth].idx = Top.idx + step,
                                         ![Depth].pc = "iter"],
                           Frame(entry(Top.node, i), Len(out), path))
        /\ events' = Append(events, <<"open", path>>)
        /\ UNCHANGED <<tx, pc, result, sortVars>>

Init ==
    /\ tx \in Transactions
    /\ output = <<>>
    /\ stack = <<>>
    /\ pc = "start"
    /\ result = NoResult
    /\ events = <<>>
    /\ ast = [shape |-> "none", fields |-> <<>>]
    /\ newFields = <<>>
    /\ ast2 = [shape |-> "none", fields |-> <<>>]
    /\ spc = "none"

\* serialize_to_string, lines 64-67: a fresh Serializer, then params.serialize
Begin ==
    /\ pc = "start"
    /\ output' = <<>>
    /\ stack' = <<Frame(tx.params, 0, <<>>)>>
    /\ events' = <<<<"open", <<>>>>>>
    /\ pc' = "run"
    /\ UNCHANGED <<tx, result, sortVars>>

SerializeBool == Entering("Bool") /\ Return(serialize_bool(output, Top.node))

SerializeI64 == Entering("SignedInt") /\ Return(serialize_i64(output, Top.node))

SerializeU64 == Entering("UnsignedInt") /\ Return(serialize_u64(output, Top.node))

SerializeF64 == Entering("Float") /\ Return(serialize_f64(output, Top.node))

SerializeStr == Entering("Text") /\ Return(serialize_str(output, Top.node.s))

SerializeUnit == Entering("Absent") /\ Return(serialize_unit(output))

SerializeUnitVariant == Entering("NamedUnit") /\ Return(serialize_unit_variant(output, Top.node))

\* a Serialize implementation fails: every caller's `?` returns the error
SerializeCustom ==
    /\ Entering("Custom")
    /\ result' = Propagate(tx.method, output, Top.node.s)
    /\ stack' = <<>>
    /\ pc' = "done"
    /\ UNCHANGED <<tx, output, events, sortVars>>

\* serialize_some, serialize_newtype_struct: value.serialize(self)
SerializeSome == Entering("Wrapped") /\ Descend(output, 1, 1)

SomeReturn == Iterating("Wrapped") /\ Return(output)

SerializeNewtypeVariant ==
    Entering("TaggedSingle") /\ Descend(newtype_variant_open(output, Top.node), 1, 1)

NewtypeVariantEnd == Iterating("TaggedSingle") /\ Return(newtype_variant_close(output))

\* serialize_seq, serialize_tuple, serialize_tuple_struct
SerializeSeq == Entering("Sequence") /\ Open(serialize_seq(output))

\* serialize_bytes opens a sequence and feeds it every byte
SerializeBytes == Entering("Bytes") /\ Open(serialize_seq(output))

SerializeTupleVariant ==
    Entering("TaggedSequence") /\ Open(serialize_tuple_variant(output, Top.node))

\* serialize_element / serialize_field of the four sequence-like serializers
SerializeElement ==
    /\ \E k \in {"Sequence", "Bytes", "TaggedSequence"} : Iterating(k)
    /\ Top.idx < Len(Top.node.items)
    /\ Descend(element_sep(output), Top.idx + 1, 1)

SeqEnd ==
    /\ \E k \in {"Sequence", "Bytes"} : Iterating(k)
    /\ Top.idx = Len(Top.node.items)
    /\ Return(seq_end(output))

TupleVariantEnd ==
    /\ Iterating("TaggedSequence")
    /\ Top.idx = Len(Top.node.items)
    /\ Return(tuple_variant_end(output))

SerializeMap == Entering("Mapping") /\ Open(serialize_map(output))

SerializeKey ==
    /\ Iterating("Mapping")
    /\ Top.idx < Len(Top.node.items) /\ Top.idx % 2 = 0
    /\ Descend(key_sep(output), Top.idx + 1, 1)

SerializeValue ==
    /\ Iterating("Mapping")
    /\ Top.idx < Len(Top.node.items) /\ Top.idx % 2 = 1
    /\ Descend(value_sep(output), Top.idx + 1, 1)

MapEnd ==
    /\ Iterating("Mapping")
    /\ Top.idx = Len(Top.node.items)
    /\ Return(map_end(output))

SerializeStruct == Entering("Struct") /\ Open(serialize_struct(output))

StructField ==
    /\ Iterating("Struct")
    /\ Top.idx < Len(Top.node.items)
    /\ Descend(struct_field_head(output, entry(Top.node, Top.idx + 1).s), Top.idx + 2, 2)

StructEnd ==
    /\ Iterating("Struct")
    /\ Top.idx = Len(Top.node.items)
    /\ Return(struct_end(output))

SerializeStructVariant ==
    Entering("TaggedMapping") /\ Open(serialize_struct_variant(output, Top.node))

StructVariantField ==
    /\ Iterating("TaggedMapping")
    /\ Top.idx < Len(Top.node.items)
    /\ Descend(variant_field_head(output, entry(Top.node, Top.idx + 1).s), Top.idx + 2, 2)

StructVariantEnd ==
    /\ Iterating("TaggedMapping")
    /\ Top.idx = Len(Top.node.items)
    /\ Return(struct_variant_end(output))

\* serialize_to_string, line 68
Finish ==
    /\ pc = "run" /\ stack = <<>>
    /\ result' = Ok(TransactionString(tx.method, output))
    /\ pc' = "done"
    /\ UNCHANGED <<tx, output, stack, events, sortVars>>

Next ==
    \/ Begin
    \/ SerializeBool \/ SerializeI64 \/ SerializeU64 \/ SerializeF64
    \/ SerializeStr \/ SerializeUnit \/ SerializeUnitVariant \/ SerializeCustom
    \/ SerializeSome \/ SomeReturn \/ SerializeNewtypeVariant \/ NewtypeVariantEnd
    \/ SerializeSeq \/ SerializeBytes \/ SerializeTupleVariant
    \/ SerializeElement \/ SeqEnd \/ TupleVariantEnd
    \/ SerializeMap \/ SerializeKey \/ SerializeValue \/ MapEnd
    \/ SerializeStruct \/ StructField \/ StructEnd
    \/ SerializeStructVariant \/ StructVariantField \/ StructVariantEnd
    \/ Finish

Spec == Init /\ [][Next]_vars

(***************************************************************************)
(* The `sort` attribute macro (src/icon_derive/src/lib.rs).  A field is    *)
(* [ident, ty]; an identifier is the sequence of its bytes.                *)
(***************************************************************************)
RECURSIVE str_cmp(_, _)
\* str::cmp: byte-wise lexicographic, a proper prefix first
str_cmp(a, b) ==
    IF a = <<>> /\ b = <<>> THEN 0
    ELSE IF a = <<>> THEN -1
    ELSE IF b = <<>> THEN 1
    ELSE IF Head(a) < Head(b) THEN -1
    ELSE IF Head(a) > Head(b) THEN 1
    ELSE str_cmp(Tail(a), Tail(b))

\* mutant: b.ident.cmp(&a.ident)
field_cmp_reversed(a, b) == str_cmp(b.ident, a.ident)
\* the comparator handed to sort_by: a.ident.cmp(&b.ident)
field_cmp(a, b) == str_cmp(a.ident, b.ident)

RECURSIVE insert(_, _)
\* f put behind every field that does not compare greater than it
insert(fs, f) ==
    IF fs = <<>> THEN <<f>>
    ELSE IF field_cmp(fs[Len(fs)], f) <= 0 THEN Append(fs, f)
    ELSE Append(insert(SubSeq(fs, 1, Len(fs) - 1), f), fs[Len(fs)])

RECURSIVE sort_by(_)
\* Vec::sort_by: a stable sort
sort_by(fs) ==
    IF fs = <<>> THEN <<>>
    ELSE insert(sort_by(SubSeq(fs, 1, Len(fs) - 1)), fs[Len(fs)])

Idents == {<<97>>, <<97, 98>>, <<98>>, <<66>>}     \* a, ab, b, B
Types == {"String", "u64"}
Fields == [ident : Idents, ty : Types]

Asts ==
    {[shape |-> "named", fields |-> fs] : fs \in SeqsUpTo(Fields, MaxFields)}
    \cup {[shape |-> sh, fields |-> <<>>] : sh \in {"tuple", "unit", "enum"}}

SortInit ==
    /\ ast \in Asts
    /\ newFields = <<>>
    /\ ast2 = [shape |-> "none", fields |-> <<>>]
    /\ spc = "parsed"
    /\ tx = [method |-> <<>>, params |-> Absent]
    /\ output = <<>>
    /\ stack = <<>>
    /\ pc = "none"
    /\ result = NoResult
    /\ events = <<>>

\* lines 39-42: anything but a struct with named fields
SortPanic ==
    /\ spc = "parsed" /\ ast.shape # "named"
    /\ spc' = "panic"
    /\ UNCHANGED <<ast, newFields, ast2, serVars>>

\* lines 43-45: collect the fields, sort them by name, clone the struct
SortFields ==
    /\ spc = "parsed" /\ ast.shape = "named"
    /\ newFields' = sort_by(ast.fields)
    /\ ast2' = ast
    /\ spc' = "sorted"
    /\ UNCHANGED <<ast, serVars>>

\* line 49: fields.named.clear()
SortClear ==
    /\ spc = "sorted"
    /\ ast2' = [ast2 EXCEPT !.fields = <<>>]
    /\ spc' = "cleared"
    /\ UNCHANGED <<ast, newFields, serVars>>

\* lines 50-52: one turn of the loop
SortPush ==
    /\ spc = "cleared" /\ Len(ast2.fields) < Len(newFields)
    /\ ast2' = [ast2 EXCEPT !.fields = Append(ast2.fields, newFields[Len(ast2.fields) + 1])]
    /\ UNCHANGED <<ast, newFields, spc, serVars>>

\* lines 57-59: the rewritten struct is the macro's output
SortReturn ==
    /\ spc = "cleared" /\ Len(ast2.fields) = Len(newFields)
    /\ spc' = "done"
    /\ UNCHANGED <<ast, newFields, ast2, serVars>>

SortNext == SortPanic \/ SortFields \/ SortClear \/ SortPush \/ SortReturn

SortSpec == SortInit /\ [][SortNext]_vars

(***************************************************************************)
(* What the claims are stated with.                                        *)
(***************************************************************************)
Done == pc = "done"
DoneOk == pc = "done" /\ result.tag = "Ok"
Params == tx.params

RECURSIVE JoinDot(_)
\* the texts of a list joined by "."
JoinDot(parts) ==
    IF parts = <<>> THEN <<>>
    ELSE IF Len(parts) = 1 THEN parts[1]
    ELSE parts[1] \o <<".">> \o JoinDot(Tail(parts))

NPairs(v) == Len(v.items) \div 2
PairKey(v, j) == v.items[2 * j - 1]
PairValue(v, j) == v.items[2 * j]
\* key, separator, value of the j-th pair
PairText(v, j, kv) == Encode(PairKey(v, j)) \o kv \o Encode(PairValue(v, j))

DotParams == <<".", "p", "a", "r", "a", "m", "s", ".">>
StripEnds(s) == SubSeq(s, 2, Len(s) - 1)

\* C1: for a transaction whose params come from the value model, serialize_to_string
\* returns Ok(method + ".params." + encode(params)), encode(params) being the whole
\* text the serializer produces for params on a fresh buffer.
C1_TransactionString ==
    (Done /\ ~HasCustom(Params)) => result = Ok(tx.method \o DotParams \o Encode(Params))

C1_Witness ==
    /\ Done
    /\ tx.method = <<"i", "c", "x", "_", "c", "a", "l", "l">>
    /\ Params = Mapping(<<Text(<<"a">>), Text(<<"x">>)>>)
    /\ result = Ok(<<"i", "c", "x", "_", "c", "a", "l", "l", ".", "p", "a", "r", "a", "m", "s",
                     ".", "{", "a", ".", "x", "}">>)

\* C2: a Sequence encodes as "[" + the encodings of its items joined by exactly one "."
\* between consecutive items + "]", whatever the items are.
C2_SequenceJoined ==
    (DoneOk /\ Params.kind = "Sequence") =>
        output = <<"[">> \o JoinDot([i \in 1..Len(Params.items) |-> Encode(Params.items[i])])
                         \o <<"]">>

\* C3: a Mapping (a map or a plain struct) encodes as "{" + its pairs, each
\* encode(key) + "." + encode(value), joined by exactly one "." + "}".
C3_MappingJoined ==
    (DoneOk /\ Params.kind \in {"Mapping", "Struct"}) =>
        output = <<"{">> \o JoinDot([j \in 1..NPairs(Params) |-> PairText(Params, j, <<".">>)])
                         \o <<"}">>

\* C4: a TaggedMapping encodes as "{" + tag + ".{" + its fields, each
\* key + ":" + encode(value), joined by exactly one "." + "}}".
C4_TaggedMappingJoined ==
    (DoneOk /\ Params.kind = "TaggedMapping") =>
        output = <<"{">> \o Params.s \o <<".", "{">>
                 \o JoinDot([j \in 1..NPairs(Params) |-> PairText(Params, j, <<":">>)])
                 \o <<"}", "}">>

RECURSIVE InOrderTexts(_, _, _)
\* the texts of pairs j.. of v written in the input's order, each pair preceded by one
\* "." or by nothing
InOrderTexts(v, j, kv) ==
    IF j > NPairs(v) THEN {<<>>}
    ELSE {sep \o PairText(v, j, kv) \o rest :
            sep \in {<<>>, <<".">>}, rest \in InOrderTexts(v, j + 1, kv)}

MapOpen(v) == IF v.kind = "TaggedMapping" THEN <<"{">> \o v.s \o <<".", "{">> ELSE <<"{">>
MapClose(v) == IF v.kind = "TaggedMapping" THEN <<"}", "}">> ELSE <<"}">>
KeyValueSep(v) == IF v.kind = "TaggedMapping" THEN <<":">> ELSE <<".">>
MapKinds == {"Mapping", "Struct", "TaggedMapping"}

\* C5: mapping entries are emitted in the input's order, never reordered: the text of a
\* Mapping or TaggedMapping is its opening, its pairs in input order and its closing; at
\* every nesting level the value being serialized is the input's child at the position
\* its parent has reached; [(b,1),(a,2)] and [(a,2),(b,1)] encode differently.
C5_InputOrderKept ==
    /\ (DoneOk /\ Params.kind \in MapKinds) =>
            output \in {MapOpen(Params) \o t \o MapClose(Params) :
                            t \in InOrderTexts(Params, 1, KeyValueSep(Params))}
    /\ \A i \in 2..Len(stack) : stack[i].node = stack[i - 1].node.items[stack[i - 1].idx]
    /\ (Done /\ Params = Mapping(<<Text(<<"b">>), SignedInt(1), Text(<<"a">>), SignedInt(2)>>)) =>
            /\ output = <<"{", "b", ".", "1", ".", "a", ".", "2", "}">>
            /\ output # Encode(Mapping(<<Text(<<"a">>), SignedInt(2), Text(<<"b">>), SignedInt(1)>>))

C5_Witness ==
    /\ Done
    /\ Params = Mapping(<<Text(<<"b">>), SignedInt(1), Text(<<"a">>), SignedInt(2)>>)
    /\ output = <<"{", "b", ".", "1", ".", "a", ".", "2", "}">>

\* C6: a value built from the value model's cases alone always encodes to Ok with a
\* string and the visitor never gets stuck; an Err comes only from a caller's conversion
\* that fails, and then the result is that error, not a string holding the buffer.
C6_Totality ==
    /\ Done => (result.tag = "Err" <=> HasCustom(Params))
    /\ (Done /\ ~HasCustom(Params)) => result.tag = "Ok"
    /\ (Done /\ result.tag = "Err") => result = Err(ErrMsg)
    /\ ~Done => ENABLED Next

C6_Witness ==
    /\ Done /\ result = Err(ErrMsg)
    /\ Params.kind = "Mapping" /\ Len(output) > 3

RECURSIVE Traversal(_, _)
RECURSIVE TraverseFrom(_, _, _)
\* the indexes of the children a node hands to the serializer: a struct's field names
\* are written by the field's own call
ChildStep(v) == IF v.kind \in {"Struct", "TaggedMapping"} THEN 2 ELSE 1
TraverseFrom(v, path, i) ==
    IF i > Len(v.items) THEN <<>>
    ELSE Traversal(v.items[i], Append(path, i)) \o TraverseFrom(v, path, i + ChildStep(v))
\* open, the children left to right, close
Traversal(v, path) ==
    <<<<"open", path>>>> \o TraverseFrom(v, path, ChildStep(v)) \o <<<<"close", path>>>>

\* C8: the buffer only grows at its end: every step leaves the old contents as a prefix
\* of the new; and every node is opened once and closed once, children left to right.
C8_AppendOnly ==
    /\ [][IsPrefix(output, output')]_vars
    /\ [](DoneOk => events = Traversal(Params, <<>>))

C8_Witness ==
    /\ DoneOk /\ Params.kind = "Sequence" /\ Len(Params.items) = 2
    /\ Params.items[1].kind = "Mapping" /\ Len(events) = 10

\* C10: the text appended while a value is serialized is its standalone encoding,
\* whatever the buffer held before.
C10_ContextIndependent ==
    [][(pc = "run" /\ pc' = "run" /\ Len(stack) > 0 /\ stack' = Pop) =>
            SubSeq(output', Top.start + 1, Len(output')) = Encode(Top.node)]_vars

C10_Witness ==
    /\ pc = "run" /\ Len(stack) >= 2
    /\ Top.node.kind \in {"Sequence", "Mapping"} /\ Top.pc = "iter"
    /\ Top.idx = Len(Top.node.items) /\ Top.idx > 0
    /\ Top.start > 1

Sorted(fs) == \A i, j \in 1..Len(fs) : i < j => str_cmp(fs[i].ident, fs[j].ident) <= 0
Count(fs, f) == Cardinality({i \in 1..Len(fs) : fs[i] = f})

\* C9: #[sort] leaves a struct whose fields are the declared fields, none dropped, added
\* or duplicated and each with its type, in ascending byte order of their names; a
\* struct declared in that order keeps its order.
C9_SortedPermutation ==
    spc = "done" =>
        /\ Len(ast2.fields) = Len(ast.fields)
        /\ \A f \in Fields : Count(ast2.fields, f) = Count(ast.fields, f)
        /\ Sorted(ast2.fields)
        /\ Sorted(ast.fields) => ast2.fields = ast.fields
        /\ ast2.shape = ast.shape

C9_Witness ==
    /\ spc = "done" /\ Len(ast.fields) = 3 /\ ~Sorted(ast.fields)
    /\ ast.fields[1].ident = <<98>> /\ ast.fields[2].ident = <<97, 98>>
    /\ ast.fields[3].ident = <<66>>

====
